---------------------------- MODULE Spec2Model ----------------------------
(***************************************************************************)
(* Credential and identity core of open-balena-api:                        *)
(*   src/src/platform/api-keys.ts   createApiKey, retrieveAPIKey           *)
(*   src/src/infra/auth/auth.ts     getUser, findUser, registerUser        *)
(*                                  comparePassword, setPassword,          *)
(*                                  updatePasswordIfNeeded,                *)
(*                                  checkUserPassword, userHasPermission,  *)
(*                                  reqHasPermission                       *)
(* The store (pinejs) is modelled as committed tables plus the rows each   *)
(* open transaction holds pending.                                         *)
(***************************************************************************)
EXTENDS Integers, Sequences, FiniteSets, TLC

VARIABLES
    apiKeys,    \* committed api_key rows
    keyRoles,   \* committed api_key__has__role rows
    users,      \* committed user rows
    txs,        \* transactions of createApiKey: <<[status, owner]>>
    pendKeys,   \* api_key rows written in a transaction, not yet committed
    pendRoles,  \* api_key__has__role rows written in a transaction
    nextId,     \* id sequence of api_key
    options,    \* the options object the caller handed to createApiKey
    call,       \* the createApiKey call in progress
    ncalls,     \* createApiKey calls made so far
    regs,       \* the registerUser calls, one per caller
    regPend,    \* user rows written in a registerUser transaction
    nextUser,   \* id sequence of user
    req,        \* the request object getUser works on
    gu,         \* the getUser call in progress
    trace,      \* what the getUser call in progress has done, in order
    queries,    \* user-by-API-key queries issued on this request
    history,    \* completed getUser calls on this request
    pw,         \* the updatePasswordIfNeeded or checkUserPassword call in progress
    pwPend,     \* user rows patched in the password caller's transaction
    pwTx,       \* the password caller's transaction: none, open, committed, rolledback
    lastUpd,    \* the latest password write updatePasswordIfNeeded made
    npw,        \* password calls made so far
    fn          \* the latest findUser / userHasPermission / reqHasPermission call

keyVars == <<apiKeys, keyRoles, txs, pendKeys, pendRoles, nextId, options, call, ncalls>>
regVars == <<regs, regPend, nextUser>>
reqVars == <<req, gu, trace, queries, history>>
pwVars == <<pw, pwPend, pwTx, lastUpd, npw>>
vars == <<apiKeys, keyRoles, users, txs, pendKeys, pendRoles, nextId, options,
          call, ncalls, regs, regPend, nextUser, req, gu, trace, queries, history,
          pw, pwPend, pwTx, lastUpd, npw, fn>>

-----------------------------------------------------------------------------
(* Bounds *)

MaxCalls == 2       \* createApiKey calls in one behaviour
MaxGetUser == 2     \* getUser calls on one request
MaxPwCalls == 3     \* updatePasswordIfNeeded and checkUserPassword calls in one behaviour

-----------------------------------------------------------------------------
(* Values *)

Undefined == "undefined"     \* a missing string-valued property
NoId == 0                    \* a missing id (ids start at 1)

SuppliedKeys == {"k1"}       \* keys a caller passes as options.apiKey
RandomKeys == {"r1", "r2"}   \* values randomstring.generate() can return

EntityIds == {1, 2, 3}       \* actorTypeID values a caller passes
RoleNames == {"observer", "nosuch"}

\* The role table (pre-seeded, not written by this code).
Roles == {[id |-> 7, name |-> "observer"]}

\* api.resin.get({resource: actorType, id, $select: 'actor'}): entity 1 has
\* actor 11, entity 2 exists without an actor, entity 3 does not exist.
Actorable(id) ==
    CASE id = 1 -> [found |-> TRUE, actor |-> 11]
      [] id = 2 -> [found |-> TRUE, actor |-> NoId]
      [] OTHER  -> [found |-> FALSE, actor |-> NoId]

\* The bodies the canAccess endpoint can answer with: res.d
AccessResults == {<<>>} \cup {<<[id |-> i]>> : i \in EntityIds}

-----------------------------------------------------------------------------
(* Strings: sequences of characters *)

\* String.prototype.toLowerCase / OData tolower on the characters in use
ToLowerChar(c) ==
    CASE c = "A" -> "a"
      [] c = "R" -> "r"
      [] OTHER   -> c

ToLower(s) == [i \in 1..Len(s) |-> ToLowerChar(s[i])]

\* String.prototype.includes for a single character
Includes(s, c) == \E i \in 1..Len(s) : s[i] = c

StrRoot == <<"r", "o", "o", "t">>

\* const USERNAME_BLACKLIST = ['root']
USERNAME_BLACKLIST == {StrRoot}

\* userData.username and userData.email values a caller passes
Usernames == {<<"a">>, <<"A">>, <<"a", "@">>, <<"A", "@">>, StrRoot,
              <<"R", "o", "o", "t">>}
Emails == {<<"@", "a">>, <<"@", "A">>, <<"a", "@">>, <<"a">>}

-----------------------------------------------------------------------------
(* createApiKey *)

IdleCall ==
    [pc |-> "idle", roleName |-> Undefined, actorTypeID |-> NoId, ownTx |-> FALSE,
     actorID |-> NoId, insert |-> "none", roleGet |-> "none", roleRes |-> <<>>,
     apiKeyId |-> NoId, roleId |-> NoId, result |-> "none", key |-> Undefined,
     fresh |-> FALSE, tx |-> NoId, checked |-> FALSE, res |-> <<>>,
     suppliedTx |-> NoId, bare |-> FALSE]

TxUsable(t) == t \in DOMAIN txs /\ txs[t].status = "open"

\* _.get(res, ['d', 0, 'id'])
ResId(d) == IF Len(d) > 0 THEN d[1].id ELSE NoId

\* the role rows authApiTx.get({resource: 'role', $filter: {name}}) answers with
RoleRows(name) ==
    LET S == {r \in Roles : r.name = name}
    IN  IF S = {} THEN <<>> ELSE <<[id |-> (CHOOSE r \in S : TRUE).id]>>

\* if (resId !== actorTypeID) throw new ForbiddenError()
AccessDeniedLoose(d, actorTypeID) == ResId(d) = NoId
AccessDenied(d, actorTypeID) == ResId(d) # actorTypeID

\* $createApiKey rejects with err; db.transaction sees it when it owns the tx,
\* otherwise the error is the caller's at once.
Reject(c, err) ==
    [c EXCEPT !.pc = IF c.ownTx THEN "rejected" ELSE "done", !.result = err]

Resolve(c) ==
    [c EXCEPT !.pc = IF c.ownTx THEN "resolved" ELSE "done", !.result = "ok"]

\* Promise.all([post api_key, get role]) and the destructuring of its value:
\* rejects with the first failure, resolves once both are done; [{id: roleId}]
\* of an empty list throws a TypeError.
SettleOnRole(c) ==
    IF c.pc # "parallel" THEN c
    ELSE IF c.insert = "failed" \/ c.roleGet = "failed" THEN Reject(c, "Error")
    ELSE IF c.roleGet = "done"
         THEN IF Len(c.roleRes) = 0
              THEN Reject(c, "TypeError")
              ELSE [c EXCEPT !.pc = "binding", !.roleId = c.roleRes[1].id]
    ELSE c

Settle(c) ==
    IF c.pc # "parallel" THEN c
    ELSE IF c.insert = "failed" \/ c.roleGet = "failed" THEN Reject(c, "Error")
    ELSE IF c.insert = "done" /\ c.roleGet = "done"
         THEN IF Len(c.roleRes) = 0
              THEN Reject(c, "TypeError")
              ELSE [c EXCEPT !.pc = "binding", !.roleId = c.roleRes[1].id]
    ELSE c

\* if (options.tx != null) $createApiKey runs in it, else in a transaction
\* createApiKey opens
OwnsTxAlways(opts) == TRUE
OwnsTx(opts) == opts.tx = NoId

\* createApiKey touches neither the user table nor a request.
KeysOnly == UNCHANGED <<users, regVars, reqVars, pwVars, fn>>

\* createApiKey up to the call of $createApiKey or of db.transaction. The
\* caller passes a new options object or the one it passed before.
CreateApiKey ==
    /\ call.pc = "idle"
    /\ ncalls < MaxCalls
    /\ \E reuse \in BOOLEAN, k \in SuppliedKeys \cup {Undefined}, withTx \in BOOLEAN,
          rn \in RoleNames, id \in EntityIds, rnd \in RandomKeys :
         LET passed == IF reuse THEN options
                       ELSE [apiKey |-> k,
                             tx |-> IF withTx THEN Len(txs) + 1 ELSE NoId]
             keyed == IF passed.apiKey = Undefined
                      THEN [passed EXCEPT !.apiKey = rnd] ELSE passed
         IN  /\ reuse => ncalls > 0
             /\ txs' = IF ~reuse /\ withTx
                       THEN Append(txs, [status |-> "open", owner |-> "caller"])
                       ELSE txs
             /\ options' = keyed
             /\ call' = [IdleCall EXCEPT
                           !.pc = IF OwnsTx(keyed) THEN "transaction" ELSE "actor",
                           !.roleName = rn, !.actorTypeID = id,
                           !.ownTx = OwnsTx(keyed),
                           !.fresh = (passed.apiKey = Undefined),
                           !.suppliedTx = passed.tx,
                           !.bare = (/\ passed.apiKey \notin SuppliedKeys
                                     /\ \/ passed.tx = NoId
                                        \/ /\ passed.tx \in DOMAIN txs
                                           /\ txs[passed.tx].owner = "core"),
                           !.tx = keyed.tx,
                           !.key = keyed.apiKey]
    /\ ncalls' = ncalls + 1
    /\ UNCHANGED <<apiKeys, keyRoles, pendKeys, pendRoles, nextId>>
    /\ KeysOnly

\* sbvrUtils.db.transaction(tx => { options.tx = tx; return $createApiKey(..) })
TransactionCallback ==
    /\ call.pc = "transaction"
    /\ txs' = Append(txs, [status |-> "open", owner |-> "core"])
    /\ options' = [options EXCEPT !.tx = Len(txs) + 1]
    /\ call' = [call EXCEPT !.pc = "actor", !.tx = Len(txs) + 1]
    /\ UNCHANGED <<apiKeys, keyRoles, pendKeys, pendRoles, nextId, ncalls>>
    /\ KeysOnly

\* db.transaction cannot open a transaction: the callback never runs.
TransactionFails ==
    /\ call.pc = "transaction"
    /\ call' = [call EXCEPT !.pc = "done", !.result = "Error"]
    /\ UNCHANGED <<apiKeys, keyRoles, txs, pendKeys, pendRoles, nextId, options, ncalls>>
    /\ KeysOnly

\* api.resin.get of the actorable and the actorID == null test
ActorLookup ==
    /\ call.pc = "actor"
    /\ \E storeOk \in BOOLEAN :
         LET a == Actorable(call.actorTypeID)
         IN  call' = IF ~TxUsable(call.tx) \/ ~storeOk THEN Reject(call, "Error")
                     ELSE IF ~a.found \/ a.actor = NoId THEN Reject(call, "Error")
                     ELSE [call EXCEPT !.pc = "access", !.actorID = a.actor]
    /\ UNCHANGED <<apiKeys, keyRoles, txs, pendKeys, pendRoles, nextId, options, ncalls>>
    /\ KeysOnly

\* api.resin.post of canAccess and the resId test; past it both members of the
\* Promise.all are issued.
AccessCheck ==
    /\ call.pc = "access"
    /\ \E storeOk \in BOOLEAN, d \in AccessResults :
         LET got == [call EXCEPT !.checked = TRUE, !.res = d]
         IN  call' = IF ~TxUsable(call.tx) \/ ~storeOk THEN Reject(call, "Error")
                     ELSE IF AccessDenied(d, call.actorTypeID)
                          THEN Reject(got, "Forbidden")
                          ELSE [got EXCEPT !.pc = "parallel", !.insert = "pending",
                                           !.roleGet = "pending"]
    /\ UNCHANGED <<apiKeys, keyRoles, txs, pendKeys, pendRoles, nextId, options, ncalls>>
    /\ KeysOnly

\* authApiTx.post({resource: 'api_key', ...}) completes. It may complete after
\* the Promise.all has rejected; on a closed transaction it fails.
InsertApiKey ==
    /\ call.insert = "pending"
    /\ \E storeOk \in BOOLEAN :
         IF TxUsable(call.tx) /\ storeOk
         THEN /\ pendKeys' = pendKeys \cup
                    {[id |-> nextId, key |-> call.key, actor |-> call.actorID,
                      tx |-> call.tx]}
              /\ nextId' = nextId + 1
              /\ call' = Settle([call EXCEPT !.insert = "done", !.apiKeyId = nextId])
         ELSE /\ call' = Settle([call EXCEPT !.insert = "failed"])
              /\ UNCHANGED <<pendKeys, nextId>>
    /\ UNCHANGED <<apiKeys, keyRoles, txs, pendRoles, options, ncalls>>
    /\ KeysOnly

\* authApiTx.get({resource: 'role', $filter: {name: roleName}}) completes.
RoleLookup ==
    /\ call.roleGet = "pending"
    /\ \E storeOk \in BOOLEAN :
         call' = IF TxUsable(call.tx) /\ storeOk
                 THEN Settle([call EXCEPT !.roleGet = "done",
                                          !.roleRes = RoleRows(call.roleName)])
                 ELSE Settle([call EXCEPT !.roleGet = "failed"])
    /\ UNCHANGED <<apiKeys, keyRoles, txs, pendKeys, pendRoles, nextId, options, ncalls>>
    /\ KeysOnly

\* authApiTx.post({resource: 'api_key__has__role', ...}) and return apiKey
InsertBinding ==
    /\ call.pc = "binding"
    /\ \E storeOk \in BOOLEAN :
         IF TxUsable(call.tx) /\ storeOk
         THEN /\ pendRoles' = pendRoles \cup
                    {[api_key |-> call.apiKeyId, role |-> call.roleId, tx |-> call.tx]}
              /\ call' = Resolve(call)
         ELSE /\ call' = Reject(call, "Error")
              /\ UNCHANGED pendRoles
    /\ UNCHANGED <<apiKeys, keyRoles, txs, pendKeys, nextId, options, ncalls>>
    /\ KeysOnly

\* db.transaction settles: COMMIT when the callback's promise resolved (the
\* COMMIT itself can fail), ROLLBACK when it rejected.
TransactionEndNoRollback ==
    /\ call.pc \in {"resolved", "rejected"}
    /\ apiKeys' = apiKeys \cup {r \in pendKeys : r.tx = call.tx}
    /\ keyRoles' = keyRoles \cup {r \in pendRoles : r.tx = call.tx}
    /\ txs' = [txs EXCEPT ![call.tx].status = "committed"]
    /\ call' = [call EXCEPT !.pc = "done"]
    /\ pendKeys' = {r \in pendKeys : r.tx # call.tx}
    /\ pendRoles' = {r \in pendRoles : r.tx # call.tx}
    /\ UNCHANGED <<nextId, options, ncalls>>
    /\ KeysOnly

TransactionEnd ==
    /\ call.pc \in {"resolved", "rejected"}
    /\ \E commitOk \in BOOLEAN :
         IF call.pc = "resolved" /\ commitOk
         THEN /\ apiKeys' = apiKeys \cup {r \in pendKeys : r.tx = call.tx}
              /\ keyRoles' = keyRoles \cup {r \in pendRoles : r.tx = call.tx}
              /\ txs' = [txs EXCEPT ![call.tx].status = "committed"]
              /\ call' = [call EXCEPT !.pc = "done"]
         ELSE /\ UNCHANGED <<apiKeys, keyRoles>>
              /\ txs' = [txs EXCEPT ![call.tx].status = "rolledback"]
              /\ call' = [call EXCEPT !.pc = "done",
                            !.result = IF call.pc = "resolved" THEN "Error"
                                       ELSE call.result]
    /\ pendKeys' = {r \in pendKeys : r.tx # call.tx}
    /\ pendRoles' = {r \in pendRoles : r.tx # call.tx}
    /\ UNCHANGED <<nextId, options, ncalls>>
    /\ KeysOnly

\* The caller that supplied options.tx ends its transaction itself.
CallerOwns(t) == TxUsable(t) /\ txs[t].owner = "caller"

CallerCommit ==
    /\ call.pc \in {"done", "idle"}
    /\ CallerOwns(options.tx)
    /\ apiKeys' = apiKeys \cup {r \in pendKeys : r.tx = options.tx}
    /\ keyRoles' = keyRoles \cup {r \in pendRoles : r.tx = options.tx}
    /\ txs' = [txs EXCEPT ![options.tx].status = "committed"]
    /\ pendKeys' = {r \in pendKeys : r.tx # options.tx}
    /\ pendRoles' = {r \in pendRoles : r.tx # options.tx}
    /\ UNCHANGED <<nextId, options, call, ncalls>>
    /\ KeysOnly

CallerRollback ==
    /\ call.pc \in {"done", "idle"}
    /\ CallerOwns(options.tx)
    /\ txs' = [txs EXCEPT ![options.tx].status = "rolledback"]
    /\ pendKeys' = {r \in pendKeys : r.tx # options.tx}
    /\ pendRoles' = {r \in pendRoles : r.tx # options.tx}
    /\ UNCHANGED <<apiKeys, keyRoles, nextId, options, call, ncalls>>
    /\ KeysOnly

\* The caller has the call's outcome and nothing of the call is in flight.
Finish ==
    /\ call.pc = "done"
    /\ call.insert # "pending"
    /\ call.roleGet # "pending"
    /\ call' = IdleCall
    /\ UNCHANGED <<apiKeys, keyRoles, txs, pendKeys, pendRoles, nextId, options, ncalls>>
    /\ KeysOnly

NextKeys ==
    \/ CreateApiKey
    \/ TransactionCallback
    \/ TransactionFails
    \/ ActorLookup
    \/ AccessCheck
    \/ InsertApiKey
    \/ RoleLookup
    \/ InsertBinding
    \/ TransactionEnd
    \/ CallerCommit
    \/ CallerRollback
    \/ Finish

-----------------------------------------------------------------------------
(* findUser and registerUser *)

\* loginInfo.includes('@') ? 'email' : 'username'
LoginField(loginInfo) == IF Includes(loginInfo, "@") THEN "email" ELSE "username"

\* the rows the $filter tolower(field) eq tolower(loginInfo) selects
FindUserMatchesCaseSensitive(loginInfo, rows) ==
    IF loginInfo = <<>> THEN {}
    ELSE {u \in rows : u[LoginField(loginInfo)] = loginInfo}

FindUserMatches(loginInfo, rows) ==
    IF loginInfo = <<>> THEN {}
    ELSE {u \in rows : ToLower(u[LoginField(loginInfo)]) = ToLower(loginInfo)}

\* USERNAME_BLACKLIST.includes(userData.username)
BlacklistedNever(username) == FALSE
Blacklisted(username) == username \in USERNAME_BLACKLIST

\* What a transaction reads: the committed rows and its own pending rows.
Visible(t) == users \cup {w.row : w \in {x \in regPend : x.tx = t}}

\* The row the store creates for api.resin.post({resource: 'user', body: userData})
NewUserRow(id, data) ==
    [id |-> id, username |-> data.username, email |-> data.email,
     password |-> data.password, actor |-> id + 10, created_at |-> id,
     jwt_secret |-> Undefined]

\* the concurrent callers of registerUser, one call and one transaction each
Callers == {1, 2}

IdleReg ==
    [pc |-> "idle", data |-> [username |-> <<>>, email |-> <<>>, password |-> Undefined],
     ops |-> 0, user |-> NoId, result |-> "none", stored |-> {}]

IsConflict(r) == r \in {"blacklisted", "email taken", "username taken"}

RegOnly == UNCHANGED <<keyVars, reqVars, pwVars, fn>>

\* registerUser is called with a transaction of the caller's; the blacklist
\* test runs before the first await, then findUser(userData.email) is issued.
RegisterUser(p) ==
    /\ regs[p].pc = "idle"
    /\ \E un \in Usernames, em \in Emails :
         LET data == [username |-> un, email |-> em, password |-> Undefined]
             r == [IdleReg EXCEPT !.data = data, !.stored = users]
         IN  regs' = [regs EXCEPT ![p] =
                        IF Blacklisted(un)
                        THEN [r EXCEPT !.pc = "rejected", !.result = "blacklisted"]
                        ELSE [r EXCEPT !.pc = "email"]]
    /\ UNCHANGED <<users, regPend, nextUser>>
    /\ RegOnly

\* let existingUser = await findUser(userData.email, tx, ['id'])
CheckEmail(p) ==
    /\ regs[p].pc = "email"
    /\ \E storeOk \in BOOLEAN :
         LET r == regs[p]
             lookup == r.data.email # <<>>
             issued == [r EXCEPT !.ops = IF lookup THEN r.ops + 1 ELSE r.ops]
         IN  regs' = [regs EXCEPT ![p] =
                        IF lookup /\ ~storeOk
                        THEN [issued EXCEPT !.pc = "rejected", !.result = "Error"]
                        ELSE IF FindUserMatches(r.data.email, Visible(p)) # {}
                        THEN [issued EXCEPT !.pc = "rejected", !.result = "email taken"]
                        ELSE [issued EXCEPT !.pc = "username"]]
    /\ UNCHANGED <<users, regPend, nextUser>>
    /\ RegOnly

\* existingUser = await findUser(userData.username, tx, ['id'])
CheckUsername(p) ==
    /\ regs[p].pc = "username"
    /\ \E storeOk \in BOOLEAN :
         LET r == regs[p]
             lookup == r.data.username # <<>>
             issued == [r EXCEPT !.ops = IF lookup THEN r.ops + 1 ELSE r.ops]
         IN  regs' = [regs EXCEPT ![p] =
                        IF lookup /\ ~storeOk
                        THEN [issued EXCEPT !.pc = "rejected", !.result = "Error"]
                        ELSE IF FindUserMatches(r.data.username, Visible(p)) # {}
                        THEN [issued EXCEPT !.pc = "rejected", !.result = "username taken"]
                        ELSE [issued EXCEPT !.pc = "post"]]
    /\ UNCHANGED <<users, regPend, nextUser>>
    /\ RegOnly

\* api.resin.post({resource: 'user', body: {...userData}}) and the user.id test
PostUser(p) ==
    /\ regs[p].pc = "post"
    /\ \E outcome \in {"created", "no id", "failed"} :
         LET r == [regs[p] EXCEPT !.ops = regs[p].ops + 1]
         IN  IF outcome = "failed"
             THEN /\ regs' = [regs EXCEPT ![p] =
                                [r EXCEPT !.pc = "rejected", !.result = "Error"]]
                  /\ UNCHANGED <<regPend, nextUser>>
             ELSE /\ regPend' = regPend \cup
                        {[tx |-> p, row |-> NewUserRow(nextUser, r.data)]}
                  /\ nextUser' = nextUser + 1
                  /\ regs' = [regs EXCEPT ![p] =
                                IF outcome = "created"
                                THEN [r EXCEPT !.pc = "resolved", !.result = "ok",
                                               !.user = nextUser]
                                ELSE [r EXCEPT !.pc = "rejected", !.result = "Error",
                                               !.user = nextUser]]
    /\ UNCHANGED users
    /\ RegOnly

\* The caller commits the transaction it passed.
RegCommit(p) ==
    /\ regs[p].pc \in {"resolved", "rejected"}
    /\ users' = users \cup {w.row : w \in {x \in regPend : x.tx = p}}
    /\ regPend' = {x \in regPend : x.tx # p}
    /\ regs' = [regs EXCEPT ![p] = [IdleReg EXCEPT !.pc = "closed"]]
    /\ UNCHANGED nextUser
    /\ RegOnly

\* The caller rolls the transaction back.
RegRollback(p) ==
    /\ regs[p].pc \in {"resolved", "rejected"}
    /\ regPend' = {x \in regPend : x.tx # p}
    /\ regs' = [regs EXCEPT ![p] = [IdleReg EXCEPT !.pc = "closed"]]
    /\ UNCHANGED <<users, nextUser>>
    /\ RegOnly

NextReg ==
    \E p \in Callers :
        \/ RegisterUser(p)
        \/ CheckEmail(p)
        \/ CheckUsername(p)
        \/ PostUser(p)
        \/ RegCommit(p)
        \/ RegRollback(p)

-----------------------------------------------------------------------------
(* retrieveAPIKey and getUser *)

\* a property that is not set (undefined) where an object may stand
Absent == [absent |-> TRUE]

\* JavaScript truthiness of a string-valued property
Truthy(str) == str # Undefined /\ str # ""

\* export const userFields
userFields == {"id", "username", "email", "created_at", "jwt_secret"}

\* _.pick(user, userFields)
Pick(u, fields) == [f \in fields \cap DOMAIN u |-> u[f]]

\* The stored users and api_key rows a request can meet.
SampleUsers ==
    {[id |-> 1, username |-> <<"a">>, email |-> <<"@", "a">>, password |-> "pw",
      actor |-> 11, created_at |-> 1, jwt_secret |-> "s1"],
     [id |-> 2, username |-> <<"A", "@">>, email |-> <<"a", "@">>,
      password |-> Undefined, actor |-> 12, created_at |-> 2, jwt_secret |-> "s2"]}

SampleKeys ==
    {[id |-> 1, key |-> "k1", actor |-> 11, tx |-> 1],
     [id |-> 2, key |-> "k3", actor |-> 21, tx |-> 2]}

\* key strings an API key on a request can carry
KeyStrings == {"", "k1", "k3"}

\* (req.get('Authorization') || '').split(' '): the words of the header; a
\* missing header gives the one empty word
AuthHeaders == {<<"">>, <<"Bearer">>, <<"Bearer", "">>, <<"Bearer", "jwt1">>,
                <<"Bearer", "k1">>}

\* (req.get('Authorization') || '').split(' ')[1]
Token(header) == IF Len(header) >= 2 THEN header[2] ELSE Undefined

\* isJWT of ./jwt: a structural test of the token
IsJWT(token) == token \in {"jwt1"}

\* isRequest(req) && token && !isJWT(token)
NeedsAuthorizationAnyToken(r) == r.isRequest /\ Truthy(Token(r.auth))
NeedsAuthorization(r) ==
    /\ r.isRequest
    /\ Truthy(Token(r.auth))
    /\ ~IsJWT(Token(r.auth))

\* the prepared query: users whose actor has an api_key with this key
UsersByKey(key) ==
    {u \in users : \E k \in apiKeys : k.actor = u.actor /\ k.key = key}

\* if (req.user && !req.creds) req.creds = req.user
FillCreds(r) ==
    IF r.user # Absent /\ r.creds = Absent THEN [r EXCEPT !.creds = r.user] ELSE r

\* if (req.creds): a JWT or an API key is already loaded
AlreadyLoadedNoApiKey(r) == r.creds # Absent /\ r.apiKey = Absent
AlreadyLoaded(r) == r.creds # Absent

\* if (required && !req.user) throw new UnauthorizedError(...)
NotAuthorizedNever(required, r) == FALSE
NotAuthorizedAlsoOptional(required, r) == r.user = Absent
NotAuthorized(required, r) == required /\ r.user = Absent

\* key = req.apiKey != null ? req.apiKey.key : undefined
KeyOf(r) == IF r.apiKey # Absent THEN r.apiKey.key ELSE Undefined

\* if (!key)
NoKeyOnlyUndefined(key) == key = Undefined
NoKey(key) == ~Truthy(key)

\* req.user = req.creds = _.pick(user, userFields)
CacheNothing(r, u) == r
Cache(r, u) == [r EXCEPT !.user = Pick(u, userFields), !.creds = Pick(u, userFields)]

IdleGetUser ==
    [pc |-> "idle", required |-> TRUE, outcome |-> "none", value |-> Absent,
     error |-> "none", queried |-> FALSE, inspected |-> FALSE, hadCreds |-> FALSE,
     key |-> Undefined]

ReqOnly == UNCHANGED <<users, keyVars, regVars, pwVars, fn>>

Throw(g, err) == [g EXCEPT !.pc = "done", !.outcome = "throw", !.error = err]
Return(g, v) == [g EXCEPT !.pc = "done", !.outcome = "return", !.value = v]

\* getUser(req, required) up to await retrieveAPIKey(req), which calls
\* sbvrUtils.apiKeyMiddleware(req)
GetUser ==
    /\ gu.pc = "idle"
    /\ Len(history) < MaxGetUser
    /\ \E required \in BOOLEAN :
         gu' = [IdleGetUser EXCEPT !.pc = "apiKeyMiddleware", !.required = required]
    /\ trace' = <<"apiKeyMiddleware">>
    /\ UNCHANGED <<req, queries, history>>
    /\ ReqOnly

\* apiKeyMiddleware settles: it may have attached req.apiKey. The then()
\* callback of retrieveAPIKey runs and may call authorizationMiddleware.
ApiKeyMiddleware ==
    /\ gu.pc = "apiKeyMiddleware"
    /\ \E ok \in BOOLEAN, k \in KeyStrings \cup {Undefined} :
         LET r == IF req.apiKey = Absent /\ k # Undefined
                  THEN [req EXCEPT !.apiKey = [key |-> k]] ELSE req
         IN  IF ~ok
             THEN /\ gu' = Throw(gu, "Error")
                  /\ trace' = Append(trace, "apiKeyMiddleware failed")
                  /\ UNCHANGED req
             ELSE /\ req' = r
                  /\ IF NeedsAuthorization(r)
                     THEN /\ gu' = [gu EXCEPT !.pc = "authorizationMiddleware"]
                          /\ trace' = trace \o <<"apiKeyMiddleware done",
                                                  "authorizationMiddleware">>
                     ELSE /\ gu' = [gu EXCEPT !.pc = "inspect"]
                          /\ trace' = Append(trace, "apiKeyMiddleware done")
    /\ UNCHANGED <<queries, history>>
    /\ ReqOnly

\* authorizationMiddleware settles: it may have attached the bearer token as
\* req.apiKey.
AuthorizationMiddleware ==
    /\ gu.pc = "authorizationMiddleware"
    /\ \E ok \in BOOLEAN, attach \in BOOLEAN :
         IF ~ok
         THEN /\ gu' = Throw(gu, "Error")
              /\ trace' = Append(trace, "authorizationMiddleware failed")
              /\ UNCHANGED req
         ELSE /\ req' = IF req.apiKey = Absent /\ attach
                        THEN [req EXCEPT !.apiKey = [key |-> Token(req.auth)]]
                        ELSE req
              /\ gu' = [gu EXCEPT !.pc = "inspect"]
              /\ trace' = Append(trace, "authorizationMiddleware done")
    /\ UNCHANGED <<queries, history>>
    /\ ReqOnly

\* getUser from the end of await retrieveAPIKey(req) to its next await: the
\* creds fill-in, the already-loaded branch, the key test and the call of the
\* prepared query.
Inspect ==
    /\ gu.pc = "inspect"
    /\ LET r == FillCreds(req)
           g == [gu EXCEPT !.inspected = TRUE,
                           !.hadCreds = (req.creds # Absent \/ req.user # Absent)]
           key == KeyOf(r)
       IN  /\ req' = r
           /\ IF AlreadyLoaded(r)
              THEN /\ gu' = IF NotAuthorized(g.required, r)
                            THEN Throw(g, "User has not been authorized")
                            ELSE Return(g, r.user)
                   /\ UNCHANGED queries
                   /\ trace' = Append(trace, "inspect")
              ELSE IF NoKey(key)
              THEN /\ gu' = IF g.required
                            THEN Throw(g, "Request has no JWT or API key")
                            ELSE Return(g, Absent)
                   /\ UNCHANGED queries
                   /\ trace' = Append(trace, "inspect")
              ELSE /\ gu' = [g EXCEPT !.pc = "query", !.queried = TRUE, !.key = key]
                   /\ queries' = queries + 1
                   /\ trace' = trace \o <<"inspect", "query">>
    /\ UNCHANGED history
    /\ ReqOnly

\* const [user] = await getUserQuery()({ key }) and the rest of getUser
QueryDone ==
    /\ gu.pc = "query"
    /\ \E ok \in BOOLEAN :
         IF ~ok
         THEN /\ gu' = Throw(gu, "Error")
              /\ UNCHANGED req
         ELSE IF UsersByKey(gu.key) # {}
         THEN \E u \in UsersByKey(gu.key) :
                /\ req' = Cache(req, u)
                /\ gu' = Return(gu, Cache(req, u).user)
         ELSE /\ UNCHANGED req
              /\ gu' = IF gu.required THEN Throw(gu, "User not found for API key")
                       ELSE Return(gu, req.user)
    /\ trace' = Append(trace, "query done")
    /\ UNCHANGED <<queries, history>>
    /\ ReqOnly

\* The caller has the outcome; it may call getUser on the request again.
GetUserEnds ==
    /\ gu.pc = "done"
    /\ history' = Append(history, gu)
    /\ gu' = IdleGetUser
    /\ trace' = <<>>
    /\ UNCHANGED <<req, queries>>
    /\ ReqOnly

-----------------------------------------------------------------------------
(* comparePassword, setPassword, updatePasswordIfNeeded, checkUserPassword *)

\* Passwords a caller can pass; '' is the one runInvalidPasswordComparison uses.
Passwords == {"", "pw1", "pw2"}
Salts == {1, 2}

\* What the store keeps for a password written as plain text: its salted
\* hash (the Hashed type of the user.password field).
Hash(password, salt) == [of |-> password, salt |-> salt]

\* sbvrUtils.sbvrTypes.Hashed.compare(password, hash)
HashedCompare(password, hash) == hash.of = password

\* The hash runInvalidPasswordComparison compares against: the hash of no
\* password a caller passes, and not of ''.
DummyHash == [of |-> "Wj6ud7bYmcAw4B1uuORsnu", salt |-> 0]

\* The arguments of the Hashed.compare calls comparePassword(password, hash)
\* makes; a null hash is Absent.
PrimitiveCallsNoneOnNull(password, hash) ==
    IF hash = Absent THEN <<>> ELSE <<[password |-> password, hash |-> hash]>>

PrimitiveCalls(password, hash) ==
    IF hash = Absent
    THEN <<[password |-> "", hash |-> DummyHash]>>
    ELSE <<[password |-> password, hash |-> hash]>>

\* comparePassword(password, hash): the result of the last primitive call
ComparePassword(password, hash) ==
    LET calls == PrimitiveCalls(password, hash)
    IN  IF calls = <<>> THEN FALSE
        ELSE HashedCompare(calls[Len(calls)].password, calls[Len(calls)].hash)

\* the $select findUser uses by default
defaultFindUserSelect == {"id", "actor", "username", "password"}

\* The user table the password operations meet: user 1 has a password, user 2
\* (created without one) has none.
PwUsers ==
    {[u EXCEPT !.password = IF u.id = 1 THEN Hash("pw1", 1) ELSE Absent] :
        u \in SampleUsers}

\* usernameOrEmail values and user ids a caller passes
Logins == {<<>>, <<"a">>, <<"A">>, <<"a", "@">>, <<"x">>}
UserIds == {1, 2, 9}

\* The secrets the store can generate for a user.
Secrets == {"s1", "s2"}

\* rows with the rows a transaction holds pending laid over them
Overlay(rows, pend) ==
    {r \in rows : ~ \E q \in pend : q.id = r.id} \cup pend

\* What a read sees: with the caller's open transaction its pending rows too.
PwVisible(withTx) == IF withTx THEN Overlay(users, pwPend) ELSE users

\* api.resin.patch({resource: 'user', id, body: {password: newPassword}}):
\* the store hashes the password and generates a new token secret.
PatchedRowKeepsPassword(row, newPassword, salt, secret) ==
    [row EXCEPT !.jwt_secret = secret]

PatchedRow(row, newPassword, salt, secret) ==
    [row EXCEPT !.password = Hash(newPassword, salt), !.jwt_secret = secret]

IdlePw ==
    [pc |-> "idle", op |-> "none", login |-> <<>>, password |-> "",
     userId |-> NoId, withTx |-> FALSE, user |-> Absent, hash |-> Absent,
     cmp |-> <<>>, compared |-> FALSE, match |-> FALSE, result |-> "none",
     failedAt |-> "none", writeFailed |-> FALSE, wrote |-> FALSE,
     before |-> [users |-> {}, pend |-> {}]]

PwOnly == UNCHANGED <<keyVars, regVars, reqVars, fn>>

PwDone(c, result) == [c EXCEPT !.pc = "done", !.result = result]
PwFail(c, step) == [c EXCEPT !.pc = "done", !.result = "Error", !.failedAt = step]

\* if (match) return false; else the write is attempted
NeedsWriteAlways(match) == TRUE
NeedsWrite(match) == ~match

\* catch { return false }
WriteFailureRethrown(c) == [PwFail(c, "write") EXCEPT !.writeFailed = TRUE]
WriteFailure(c) == [PwDone(c, "false") EXCEPT !.writeFailed = TRUE]

\* updatePasswordIfNeeded(usernameOrEmail, newPassword, tx) up to the store
\* read of findUser; with an empty usernameOrEmail findUser returns undefined
\* at once. A caller that passes a transaction has it open.
UpdatePasswordIfNeeded ==
    /\ pw.pc = "idle"
    /\ npw < MaxPwCalls
    /\ \E login \in Logins, password \in Passwords, withTx \in BOOLEAN :
        LET c == [IdlePw EXCEPT !.op = "update", !.login = login,
                                !.password = password, !.withTx = withTx,
                                !.before = [users |-> users,
                                            pend |-> IF withTx /\ pwTx # "open"
                                                     THEN {} ELSE pwPend]]
        IN  /\ pw' = IF login = <<>> THEN PwDone(c, "NotFound")
                     ELSE [c EXCEPT !.pc = "find"]
            /\ IF withTx /\ pwTx # "open"
               THEN pwTx' = "open" /\ pwPend' = {}
               ELSE UNCHANGED <<pwTx, pwPend>>
    /\ npw' = npw + 1
    /\ UNCHANGED <<users, lastUpd>>
    /\ PwOnly

\* const user = await findUser(usernameOrEmail, tx); if (user == null) throw
\* new NotFoundError
PwFindUser ==
    /\ pw.pc = "find"
    /\ \E storeOk \in BOOLEAN :
        LET found == FindUserMatches(pw.login, PwVisible(pw.withTx))
        IN  IF ~storeOk THEN pw' = PwFail(pw, "lookup")
            ELSE IF found = {} THEN pw' = PwDone(pw, "NotFound")
            ELSE \E u \in found :
                    pw' = [pw EXCEPT !.pc = "compare",
                                     !.user = Pick(u, defaultFindUserSelect),
                                     !.hash = u.password]
    /\ UNCHANGED <<users, pwPend, pwTx, lastUpd, npw>>
    /\ PwOnly

\* checkUserPassword(password, userId) up to the store read, which runs in
\* no transaction
CheckUserPassword ==
    /\ pw.pc = "idle"
    /\ npw < MaxPwCalls
    /\ \E password \in Passwords, userId \in UserIds :
        pw' = [IdlePw EXCEPT !.pc = "get", !.op = "check", !.password = password,
                             !.userId = userId,
                             !.before = [users |-> users, pend |-> pwPend]]
    /\ npw' = npw + 1
    /\ UNCHANGED <<users, pwPend, pwTx, lastUpd>>
    /\ PwOnly

\* const user = await api.resin.get({resource: 'user', id: userId, ...});
\* if (user == null) throw new BadRequestError('User not found.')
PwGetUser ==
    /\ pw.pc = "get"
    /\ \E storeOk \in BOOLEAN :
        LET found == {u \in users : u.id = pw.userId}
        IN  IF ~storeOk THEN pw' = PwFail(pw, "lookup")
            ELSE IF found = {} THEN pw' = PwDone(pw, "InvalidInput: User not found.")
            ELSE \E u \in found :
                    pw' = [pw EXCEPT !.pc = "compare",
                                     !.user = Pick(u, {"password", "id"}),
                                     !.hash = u.password]
    /\ UNCHANGED <<users, pwPend, pwTx, lastUpd, npw>>
    /\ PwOnly

\* await comparePassword(password, user.password) and the test that follows
\* it in updatePasswordIfNeeded (if (match) return false) or in
\* checkUserPassword (if (!passwordIsOk) throw new BadRequestError)
PwCompare ==
    /\ pw.pc = "compare"
    /\ \E cmpOk \in BOOLEAN :
        LET match == ComparePassword(pw.password, pw.hash)
            c == [pw EXCEPT !.cmp = PrimitiveCalls(pw.password, pw.hash),
                            !.compared = cmpOk, !.match = cmpOk /\ match]
        IN  pw' = IF ~cmpOk THEN PwFail(c, "compare")
                  ELSE IF pw.op = "check"
                       THEN IF match THEN PwDone(c, "ok")
                            ELSE PwDone(c, "InvalidInput: Current password incorrect.")
                       ELSE IF NeedsWrite(match) THEN [c EXCEPT !.pc = "write"]
                            ELSE PwDone(c, "false")
    /\ UNCHANGED <<users, pwPend, pwTx, lastUpd, npw>>
    /\ PwOnly

\* try { await setPassword(user, newPassword, tx); return true } catch
\* { return false }. The patch goes to the caller's transaction when one was
\* passed, else it is committed at once; it fails when the store fails or when
\* the row is held by an open transaction the patch is not part of.
PwSetPassword ==
    /\ pw.pc = "write"
    /\ \E storeOk \in BOOLEAN, salt \in Salts, secret \in Secrets :
        LET rows == {u \in PwVisible(pw.withTx) : u.id = pw.user.id}
            locked == ~pw.withTx /\ pwTx = "open"
                        /\ \E q \in pwPend : q.id = pw.user.id
        IN  IF storeOk /\ ~locked /\ rows # {}
            THEN \E row \in rows :
                    /\ secret # row.jwt_secret
                    /\ LET new == PatchedRow(row, pw.password, salt, secret)
                       IN  /\ IF pw.withTx
                              THEN /\ pwPend' = Overlay(pwPend, {new})
                                   /\ users' = users
                              ELSE /\ users' = Overlay(users, {new})
                                   /\ pwPend' = pwPend
                           /\ pw' = [PwDone(pw, "true") EXCEPT !.wrote = TRUE]
            ELSE /\ secret = "s1" /\ salt = 1
                 /\ pw' = WriteFailure(pw)
                 /\ UNCHANGED <<users, pwPend>>
    /\ UNCHANGED <<pwTx, lastUpd, npw>>
    /\ PwOnly

\* The call settles. A write that was made becomes the latest password
\* write: the user, the hash it replaced, the password written, and whether
\* the write is committed.
PwEnds ==
    /\ pw.pc = "done"
    /\ lastUpd' = IF pw.op = "update" /\ pw.wrote
                  THEN [id |-> pw.user.id, old |-> pw.hash, password |-> pw.password,
                        committed |-> ~pw.withTx]
                  ELSE lastUpd
    /\ pw' = [pw EXCEPT !.pc = "idle"]
    /\ UNCHANGED <<users, pwPend, pwTx, npw>>
    /\ PwOnly

\* The caller commits the transaction it passed.
PwCommit ==
    /\ pw.pc = "idle"
    /\ pwTx = "open"
    /\ users' = Overlay(users, pwPend)
    /\ pwPend' = {}
    /\ pwTx' = "committed"
    /\ lastUpd' = IF lastUpd = Absent THEN Absent
                  ELSE [lastUpd EXCEPT !.committed = TRUE]
    /\ UNCHANGED <<pw, npw>>
    /\ PwOnly

\* The caller rolls the transaction it passed back; a write that was
\* pending in it is gone.
PwRollback ==
    /\ pw.pc = "idle"
    /\ pwTx = "open"
    /\ pwPend' = {}
    /\ pwTx' = "rolledback"
    /\ lastUpd' = IF lastUpd # Absent /\ ~lastUpd.committed THEN Absent ELSE lastUpd
    /\ UNCHANGED <<users, pw, npw>>
    /\ PwOnly

NextPw ==
    \/ UpdatePasswordIfNeeded
    \/ PwFindUser
    \/ CheckUserPassword
    \/ PwGetUser
    \/ PwCompare
    \/ PwSetPassword
    \/ PwEnds
    \/ PwCommit
    \/ PwRollback

-----------------------------------------------------------------------------
(* userHasPermission, reqHasPermission and findUser as single calls *)

\* Permission strings a caller asks for.
Permissions == {"resin.user.read", "resin.user.Read", "resin.device.write"}

\* What req.apiKey or req.user can hold: nothing, an identity without a
\* permission list, identities with one.
Identities ==
    {Absent,
     [actor |-> 11],
     [actor |-> 11, permissions |-> <<>>],
     [actor |-> 11, permissions |-> <<"resin.user.read">>],
     [actor |-> 12, permissions |-> <<"resin.device.write", "resin.user.Read">>]}

\* Array.prototype.includes
ArrayIncludes(array, x) == \E i \in 1..Len(array) : array[i] = x

\* userHasPermission(user, permission)
UserHasPermission(user, permission) ==
    IF user = Absent \/ "permissions" \notin DOMAIN user
    THEN FALSE
    ELSE ArrayIncludes(user.permissions, permission)

\* req.apiKey || req.user
ApiKeyOrUserPrefersUser(apiKey, user) == IF user # Absent THEN user ELSE apiKey
ApiKeyOrUser(apiKey, user) == IF apiKey # Absent THEN apiKey ELSE user

\* reqHasPermission(req, permission)
ReqHasPermission(r, permission) ==
    UserHasPermission(ApiKeyOrUser(r.apiKey, r.user), permission)

\* loginInfo values a caller of findUser passes
FnLogins == {<<>>, <<"a">>, <<"A">>, <<"a", "@">>, <<"A", "@">>, <<"@", "A">>, <<"x">>}

IdleFn == [name |-> "none"]

FnOnly == UNCHANGED <<users, keyVars, regVars, reqVars, pwVars>>

\* one call of userHasPermission
UserHasPermissionCall ==
    /\ \E user \in Identities, permission \in Permissions :
        fn' = [name |-> "userHasPermission", user |-> user, permission |-> permission,
               result |-> UserHasPermission(user, permission)]
    /\ FnOnly

\* one call of reqHasPermission
ReqHasPermissionCall ==
    /\ \E apiKey \in Identities, user \in Identities, permission \in Permissions :
        fn' = [name |-> "reqHasPermission", apiKey |-> apiKey, user |-> user,
               permission |-> permission,
               result |-> ReqHasPermission([apiKey |-> apiKey, user |-> user], permission)]
    /\ FnOnly

\* one call of findUser(loginInfo) with the default $select: if (!loginInfo)
\* return; else the first row of the query, or undefined
FindUser ==
    /\ \E loginInfo \in FnLogins, storeOk \in BOOLEAN :
        LET found == FindUserMatches(loginInfo, users)
            c == [name |-> "findUser", loginInfo |-> loginInfo,
                  looked |-> loginInfo # <<>>]
        IN  IF loginInfo = <<>>
            THEN storeOk /\ fn' = c @@ [result |-> Absent]
            ELSE IF ~storeOk THEN fn' = c @@ [result |-> [error |-> TRUE]]
            ELSE IF found = {} THEN fn' = c @@ [result |-> Absent]
            ELSE \E u \in found :
                    fn' = c @@ [result |-> Pick(u, defaultFindUserSelect)]
    /\ FnOnly

\* Some of the sample users stored, nothing called yet.
InitFn ==
    /\ users \in SUBSET SampleUsers
    /\ apiKeys = {}
    /\ keyRoles = {}
    /\ txs = <<>>
    /\ pendKeys = {}
    /\ pendRoles = {}
    /\ nextId = 1
    /\ options = [apiKey |-> Undefined, tx |-> NoId]
    /\ call = IdleCall
    /\ ncalls = 0
    /\ regs = [p \in Callers |-> IdleReg]
    /\ regPend = {}
    /\ nextUser = 3
    /\ req = [user |-> Absent, creds |-> Absent, apiKey |-> Absent,
              isRequest |-> FALSE, auth |-> <<"">>]
    /\ gu = IdleGetUser
    /\ trace = <<>>
    /\ queries = 0
    /\ history = <<>>
    /\ pw = IdlePw
    /\ pwPend = {}
    /\ pwTx = "none"
    /\ lastUpd = Absent
    /\ npw = 0
    /\ fn = IdleFn

NextFn ==
    \/ UserHasPermissionCall
    \/ ReqHasPermissionCall
    \/ FindUser

\* The password operations on the stored users; no call made yet.
InitPw ==
    /\ users = PwUsers
    /\ apiKeys = {}
    /\ keyRoles = {}
    /\ txs = <<>>
    /\ pendKeys = {}
    /\ pendRoles = {}
    /\ nextId = 1
    /\ options = [apiKey |-> Undefined, tx |-> NoId]
    /\ call = IdleCall
    /\ ncalls = 0
    /\ regs = [p \in Callers |-> IdleReg]
    /\ regPend = {}
    /\ nextUser = 3
    /\ req = [user |-> Absent, creds |-> Absent, apiKey |-> Absent,
              isRequest |-> FALSE, auth |-> <<"">>]
    /\ gu = IdleGetUser
    /\ trace = <<>>
    /\ queries = 0
    /\ history = <<>>
    /\ pw = IdlePw
    /\ pwPend = {}
    /\ pwTx = "none"
    /\ lastUpd = Absent
    /\ npw = 0
    /\ fn = IdleFn

-----------------------------------------------------------------------------
(* Initial states and the getUser steps *)

\* A request as it reaches getUser: a JWT may have set user and creds (a
\* scoped token sets creds alone, an internal request user alone), an
\* earlier middleware may have set apiKey.
ScopedCreds == [actor |-> 21, permissions |-> {"observer.read"}]

InitialRequests ==
    {[user |-> uc[1], creds |-> uc[2], apiKey |-> ak, isRequest |-> ir, auth |-> h] :
        uc \in {<<Absent, Absent>>, <<Absent, ScopedCreds>>}
                 \cup {<<Pick(u, userFields), Pick(u, userFields)>> : u \in SampleUsers}
                 \cup {<<Pick(u, userFields), Absent>> : u \in SampleUsers},
        ak \in {Absent} \cup {[key |-> k] : k \in KeyStrings},
        ir \in BOOLEAN,
        h \in AuthHeaders}

\* An empty store, no createApiKey call made, no registerUser call made, no
\* request in play.
InitEmpty ==
    /\ users = {}
    /\ apiKeys = {}
    /\ keyRoles = {}
    /\ txs = <<>>
    /\ pendKeys = {}
    /\ pendRoles = {}
    /\ nextId = 1
    /\ options = [apiKey |-> Undefined, tx |-> NoId]
    /\ call = IdleCall
    /\ ncalls = 0
    /\ regs = [p \in Callers |-> IdleReg]
    /\ regPend = {}
    /\ nextUser = 1
    /\ req = [user |-> Absent, creds |-> Absent, apiKey |-> Absent,
              isRequest |-> FALSE, auth |-> <<"">>]
    /\ gu = IdleGetUser
    /\ trace = <<>>
    /\ queries = 0
    /\ history = <<>>
    /\ pw = IdlePw
    /\ pwPend = {}
    /\ pwTx = "none"
    /\ lastUpd = Absent
    /\ npw = 0
    /\ fn = IdleFn

\* A request as it reaches getUser, and the store it meets: some of the
\* sample users and keys, each key with its role.
InitReq ==
    /\ users \in SUBSET SampleUsers
    /\ apiKeys \in SUBSET SampleKeys
    /\ keyRoles = {[api_key |-> k.id, role |-> 7, tx |-> k.tx] : k \in apiKeys}
    /\ txs = <<[status |-> "committed", owner |-> "core"],
               [status |-> "committed", owner |-> "core"]>>
    /\ pendKeys = {}
    /\ pendRoles = {}
    /\ nextId = 3
    /\ options = [apiKey |-> Undefined, tx |-> NoId]
    /\ call = IdleCall
    /\ ncalls = 0
    /\ regs = [p \in Callers |-> IdleReg]
    /\ regPend = {}
    /\ nextUser = 3
    /\ req \in InitialRequests
    /\ gu = IdleGetUser
    /\ trace = <<>>
    /\ queries = 0
    /\ history = <<>>
    /\ pw = IdlePw
    /\ pwPend = {}
    /\ pwTx = "none"
    /\ lastUpd = Absent
    /\ npw = 0
    /\ fn = IdleFn

NextReq ==
    \/ GetUser
    \/ ApiKeyMiddleware
    \/ AuthorizationMiddleware
    \/ Inspect
    \/ QueryDone
    \/ GetUserEnds

-----------------------------------------------------------------------------
(* Specifications *)

\* createApiKey calls, one after the other, on an empty store
SpecKeys == InitEmpty /\ [][NextKeys]_vars

\* concurrent registerUser calls on an empty user table
SpecReg == InitEmpty /\ [][NextReg]_vars

\* getUser calls, one after the other, on one request
SpecReq == InitReq /\ [][NextReq]_vars

\* updatePasswordIfNeeded and checkUserPassword calls, one after the other
SpecPw == InitPw /\ [][NextPw]_vars

\* single calls of the permission tests and of findUser
SpecFn == InitFn /\ [][NextFn]_vars

-----------------------------------------------------------------------------
(* Properties of createApiKey, checked under SpecKeys *)

CoreTx(t) == txs[t].owner = "core"

BindingsOf(k) == {b \in keyRoles : b.api_key = k.id}

\* C1: a call that opened its own transaction leaves in the committed store
\* either its api_key row with exactly one api_key__has__role row, or no
\* api_key row: after a failed call none of its rows is committed, and every
\* committed row of such a transaction has exactly one committed binding.
C1_Atomic ==
    /\ \A k \in apiKeys :
         CoreTx(k.tx) =>
           /\ txs[k.tx].status = "committed"
           /\ Cardinality(BindingsOf(k)) = 1
           /\ \A b \in BindingsOf(k) : b.tx = k.tx
    /\ (call.pc = "done" /\ call.ownTx /\ call.result # "ok" /\ call.tx # NoId) =>
         /\ \A k \in apiKeys : k.tx # call.tx
         /\ \A b \in keyRoles : b.tx # call.tx

\* A call in its own transaction inserted its api_key row, found no role of
\* the requested name and ended; an earlier call's row is committed.
C1_Witness ==
    /\ call.pc = "done"
    /\ call.ownTx
    /\ call.result = "TypeError"
    /\ call.apiKeyId # NoId
    /\ \A k \in apiKeys : k.id # call.apiKeyId
    /\ \E k \in apiKeys : CoreTx(k.tx)

\* C2: once canAccess has answered, the call is Forbidden and has issued no
\* write exactly when the first element's id is not actorTypeID (an empty
\* answer included); only an answer naming actorTypeID lets it go on.
C2_Forbidden ==
    /\ call.checked =>
         IF ResId(call.res) # call.actorTypeID
         THEN /\ call.result = "Forbidden"
              /\ call.insert = "none"
              /\ call.roleGet = "none"
         ELSE /\ call.result # "Forbidden"
              /\ call.insert # "none"
    /\ (call.insert # "none" \/ call.pc \in {"parallel", "binding", "resolved"}) =>
         /\ call.checked
         /\ ResId(call.res) = call.actorTypeID

\* canAccess answered with another entity's id and the call ended Forbidden.
C2_Witness ==
    /\ call.pc = "done"
    /\ call.checked
    /\ Len(call.res) > 0
    /\ ResId(call.res) # call.actorTypeID
    /\ call.result = "Forbidden"

\* the api_key rows and the bindings, committed or pending
AllKeys == apiKeys \cup pendKeys
AllBindings == keyRoles \cup pendRoles

\* C18: a write of the call is issued only with a non-null actor id from the
\* actor lookup and with canAccess's answer naming actorTypeID; the binding
\* insert is issued only once the api_key insert and the role lookup are both
\* done, and every binding joins the id of an api_key row of the same
\* transaction with the id of a role; a call whose entity or actor is
\* missing ends with a generic error, not Forbidden, before the access check.
C18_WriteOrder ==
    /\ (call.insert # "none" \/ call.pc = "binding") =>
         /\ call.actorID # NoId
         /\ call.actorID = Actorable(call.actorTypeID).actor
         /\ call.checked
         /\ ResId(call.res) = call.actorTypeID
    /\ call.pc = "binding" =>
         /\ call.insert = "done"
         /\ call.roleGet = "done"
         /\ \E k \in pendKeys : k.id = call.apiKeyId /\ k.tx = call.tx
         /\ <<[id |-> call.roleId]>> = RoleRows(call.roleName)
    /\ \A b \in AllBindings :
         /\ \E k \in AllKeys : k.id = b.api_key /\ k.tx = b.tx
         /\ \E r \in Roles : r.id = b.role
    /\ (call.result = "ok" /\ TxUsable(call.tx)) =>
         [api_key |-> call.apiKeyId, role |-> call.roleId, tx |-> call.tx] \in pendRoles
    /\ (/\ call.result # "none"
        /\ \/ ~Actorable(call.actorTypeID).found
           \/ Actorable(call.actorTypeID).actor = NoId) =>
         /\ call.result = "Error"
         /\ ~call.checked
         /\ call.insert = "none"

\* The binding of a successful call is in place, joining its two ids.
C18_Witness ==
    /\ call.result = "ok"
    /\ TxUsable(call.tx)
    /\ call.insert = "done"
    /\ call.roleGet = "done"
    /\ [api_key |-> call.apiKeyId, role |-> call.roleId, tx |-> call.tx] \in pendRoles

\* A step of a call that was handed a transaction leaves every transaction
\* as it is, commits nothing, drops nothing pending, and writes in the
\* transaction it was handed only.
SuppliedTxStep ==
    (call.pc # "idle" /\ call.suppliedTx # NoId /\ call' # call) =>
        /\ txs' = txs
        /\ apiKeys' = apiKeys
        /\ keyRoles' = keyRoles
        /\ pendKeys \subseteq pendKeys'
        /\ pendRoles \subseteq pendRoles'
        /\ \A r \in (pendKeys' \ pendKeys) \cup (pendRoles' \ pendRoles) :
              r.tx = call.suppliedTx
        /\ call'.pc # "idle" => call'.tx = call.suppliedTx /\ ~call'.ownTx

\* The api_key row a failed call inserted in the caller's transaction is
\* pending in it as long as the caller has not ended the transaction.
SuppliedTxRowPending ==
    (/\ call.pc = "done"
     /\ call.suppliedTx # NoId
     /\ call.result # "ok"
     /\ call.insert = "done"
     /\ TxUsable(call.suppliedTx)) =>
        /\ \E k \in pendKeys : k.id = call.apiKeyId /\ k.tx = call.suppliedTx
        /\ \A k \in apiKeys : k.id # call.apiKeyId

\* C19: a createApiKey call that was handed options.tx reads and writes in
\* that transaction, opens none, commits none and rolls none back; after it
\* failed the transaction is as the caller left it and a row the call
\* inserted is pending in it until the caller ends the transaction.
C19_CallersTransaction == []SuppliedTxRowPending /\ [][SuppliedTxStep]_vars

\* A call in the caller's open transaction inserted its row and failed.
C19_Witness ==
    /\ call.pc = "done"
    /\ call.suppliedTx # NoId
    /\ txs[call.suppliedTx].owner = "caller"
    /\ TxUsable(call.suppliedTx)
    /\ call.result = "TypeError"
    /\ call.insert = "done"
    /\ \E k \in pendKeys : k.id = call.apiKeyId /\ k.tx = call.suppliedTx

\* C20 as stated: every call whose caller set neither options.apiKey nor
\* options.tx, a call with an options object passed before included,
\* generates its key and runs in a transaction it opens itself, and the key
\* it returns is the key of the row it inserted.
C20_FreshKeyAndTx ==
    /\ (call.bare /\ call.pc # "idle") =>
         /\ call.fresh
         /\ call.ownTx
         /\ call.suppliedTx = NoId
    /\ (call.bare /\ call.result = "ok" /\ TxUsable(call.tx)) =>
         \E k \in pendKeys : k.id = call.apiKeyId /\ k.key = call.key

-----------------------------------------------------------------------------
(* Properties of registerUser, checked under SpecReg *)

Returned(p) == regs[p].pc \in {"resolved", "rejected"}

\* two identities collide: same email or same username, compared lowercased
Collide(a, b) ==
    \/ ToLower(a.email) = ToLower(b.email)
    \/ ToLower(a.username) = ToLower(b.username)

\* a user stored when caller p made its call has p's email or username
Taken(p) == \E u \in regs[p].stored : Collide(u, regs[p].data)

\* C3: a registerUser call made while a stored user has the same email or the
\* same username, compared case-insensitively, fails with Conflict and
\* creates no user row (calls the store itself failed are left aside).
C3_TakenConflicts ==
    \A p \in Callers :
        (Returned(p) /\ Taken(p) /\ regs[p].result # "Error") =>
            /\ IsConflict(regs[p].result)
            /\ regs[p].user = NoId

\* C4: the committed user table never holds two rows whose usernames or
\* whose emails are equal case-insensitively.
C4_NoCollidingUsers ==
    \A u \in users : \A v \in users : u.id # v.id => ~Collide(u, v)

\* C5: a call with a blacklisted username has failed with Conflict without
\* issuing a lookup or an insert.
C5_BlacklistFirst ==
    \A p \in Callers :
        (regs[p].pc \notin {"idle", "closed"} /\ regs[p].data.username \in USERNAME_BLACKLIST) =>
            /\ regs[p].pc = "rejected"
            /\ regs[p].result = "blacklisted"
            /\ regs[p].ops = 0
            /\ regs[p].user = NoId
            /\ \A w \in regPend : w.tx # p

\* "root" was refused while another user is stored and the other caller is
\* in the middle of its own registration.
C5_Witness ==
    \E p \in Callers : \E q \in Callers :
        /\ regs[p].data.username = StrRoot
        /\ regs[p].result = "blacklisted"
        /\ regs[p].ops = 0
        /\ regs[q].pc = "post"
        /\ regs[q].ops = 2

\* C21 as stated: no stored user (every one was created by registerUser)
\* has a username that, lowercased, is a lowercased name of the blacklist;
\* neither "root" nor "Root" is stored.
C21_NoBlacklistedUser ==
    \A u \in users :
        \A b \in USERNAME_BLACKLIST : ToLower(u.username) # ToLower(b)

-----------------------------------------------------------------------------
(* Properties of getUser, checked under SpecReq *)

InTrace(e) == \E i \in 1..Len(trace) : trace[i] = e

\* C6: a required getUser that, once the middlewares are through, finds no
\* creds, no user and no API key with a non-empty key has failed with
\* Unauthorized and has not issued the user-by-API-key query.
C6_NoCredentials ==
    (/\ gu.inspected
     /\ gu.required
     /\ req.creds = Absent
     /\ req.user = Absent
     /\ KeyOf(req) \in {Undefined, ""}) =>
        /\ gu.pc = "done"
        /\ gu.outcome = "throw"
        /\ gu.error = "Request has no JWT or API key"
        /\ ~gu.queried
        /\ ~InTrace("query")

\* A required call met an API key whose key is the empty string.
C6_Witness ==
    /\ gu.pc = "done"
    /\ gu.required
    /\ req.apiKey # Absent
    /\ KeyOf(req) = ""
    /\ req.creds = Absent
    /\ gu.error = "Request has no JWT or API key"

\* C7 as stated: once a getUser call on the request has run its lookup to
\* the end, no later call on the request issues the user-by-API-key query.
C7_Memoized ==
    (/\ Len(history) >= 1
     /\ history[1].queried
     /\ history[1].error # "Error") => ~gu.queried

\* the call that follows the i-th completed call: completed, or in progress
CallAfter(i) == IF i < Len(history) THEN history[i + 1] ELSE gu

\* C7 amended: once a getUser call on the request has returned a user, the
\* next call issues no query and, once past the middlewares, returns that
\* same user.
C7_CachedUser ==
    \A i \in 1..Len(history) :
        (history[i].outcome = "return" /\ history[i].value # Absent) =>
            /\ ~CallAfter(i).queried
            /\ CallAfter(i).inspected =>
                 /\ CallAfter(i).outcome = "return"
                 /\ CallAfter(i).value = history[i].value

\* The first call looked the user up by API key, the second returned the
\* same user without a second query.
C7_Witness ==
    /\ Len(history) = 2
    /\ history[1].queried
    /\ history[1].outcome = "return"
    /\ history[1].value # Absent
    /\ history[2].outcome = "return"
    /\ history[2].value = history[1].value
    /\ queries = 1

\* C8: a call that found no credentials attached and looked up a non-empty
\* key: if a stored user's actor owns an api_key with that key, the call
\* returns such a user cut down to userFields and req.user and req.creds
\* both hold that value; if none does and the call is required, it fails
\* with "User not found for API key" and req.user and req.creds stay unset.
C8_UserByApiKey ==
    (/\ gu.pc = "done"
     /\ gu.inspected
     /\ ~gu.hadCreds
     /\ KeyOf(req) \notin {Undefined, ""}
     /\ gu.error # "Error") =>
        IF \E u \in users : \E k \in apiKeys : k.actor = u.actor /\ k.key = KeyOf(req)
        THEN /\ gu.outcome = "return"
             /\ \E u \in users :
                  /\ \E k \in apiKeys : k.actor = u.actor /\ k.key = KeyOf(req)
                  /\ gu.value = [f \in userFields |-> u[f]]
             /\ req.user = gu.value
             /\ req.creds = gu.value
        ELSE gu.required =>
             /\ gu.outcome = "throw"
             /\ gu.error = "User not found for API key"
             /\ req.user = Absent
             /\ req.creds = Absent

\* A call resolved the user behind key "k1" and cached it in both slots.
C8_Witness ==
    /\ gu.pc = "done"
    /\ gu.queried
    /\ gu.key = "k1"
    /\ gu.outcome = "return"
    /\ gu.value # Absent
    /\ gu.value.id = 1
    /\ req.creds = gu.value

\* C9: with creds or user attached once the middlewares are through, getUser
\* issues no query; it fails with "User has not been authorized" when
\* required and req.user is unset, and returns req.user otherwise.
C9_AlreadyLoaded ==
    (gu.inspected /\ gu.hadCreds) =>
        /\ gu.pc = "done"
        /\ ~gu.queried
        /\ ~InTrace("query")
        /\ IF gu.required /\ req.user = Absent
           THEN /\ gu.outcome = "throw"
                /\ gu.error = "User has not been authorized"
           ELSE /\ gu.outcome = "return"
                /\ gu.value = req.user

\* A required call on a request with creds of a scoped key, no user, and an
\* API key with a key string: refused, no query.
C9_Witness ==
    /\ gu.pc = "done"
    /\ gu.required
    /\ req.creds = ScopedCreds
    /\ req.user = Absent
    /\ KeyOf(req) = "k1"
    /\ gu.error = "User has not been authorized"
    /\ queries = 0

\* C10: the call starts with apiKeyMiddleware; authorizationMiddleware is
\* called only right after apiKeyMiddleware has settled, and only for a
\* request that reads headers and whose bearer token is set and is no JWT
\* (and then it is called); the request's slots are inspected only after
\* the middlewares called have settled.
C10_Order ==
    /\ gu.pc \notin {"idle"} => (Len(trace) >= 1 /\ trace[1] = "apiKeyMiddleware")
    /\ \A i \in 1..Len(trace) :
         /\ trace[i] = "apiKeyMiddleware" => i = 1
         /\ trace[i] = "authorizationMiddleware" =>
              /\ i = 3
              /\ trace[2] = "apiKeyMiddleware done"
              /\ req.isRequest
              /\ Token(req.auth) \notin {Undefined, ""}
              /\ ~IsJWT(Token(req.auth))
         /\ trace[i] = "inspect" =>
              \/ /\ i = 3
                 /\ trace[2] = "apiKeyMiddleware done"
                 /\ ~(req.isRequest /\ Token(req.auth) \notin {Undefined, ""}
                        /\ ~IsJWT(Token(req.auth)))
              \/ /\ i = 5
                 /\ trace[3] = "authorizationMiddleware"
                 /\ trace[4] = "authorizationMiddleware done"
         /\ trace[i] = "query" => (i > 1 /\ trace[i - 1] = "inspect")
    /\ gu.inspected => InTrace("inspect")

\* Both middlewares ran, in order, before the slots of a request that
\* already had a user were inspected.
C10_Witness ==
    /\ trace = <<"apiKeyMiddleware", "apiKeyMiddleware done",
                 "authorizationMiddleware", "authorizationMiddleware done",
                 "inspect">>
    /\ req.user # Absent
    /\ gu.outcome = "return"

\* the messages of the UnauthorizedError getUser throws
UnauthorizedMessages ==
    {"User has not been authorized", "Request has no JWT or API key",
     "User not found for API key"}

\* C17: an optional getUser never ends with Unauthorized; what it throws is
\* a failure of a middleware or of the query. When it finds no creds and no
\* API key or one without a key string, when its query matches no user, and
\* when it finds creds without a user, it returns undefined.
C17_OptionalNeverUnauthorized ==
    (~gu.required /\ gu.pc = "done")
        => /\ gu.error \notin UnauthorizedMessages
           /\ gu.outcome = "throw" => gu.error = "Error"
           /\ (gu.inspected /\ ~gu.hadCreds /\ KeyOf(req) \in {Undefined, ""})
                => gu.outcome = "return" /\ gu.value = Absent
           /\ (gu.queried /\ gu.outcome = "return" /\ UsersByKey(gu.key) = {})
                => gu.value = Absent
           /\ (gu.inspected /\ gu.hadCreds /\ req.user = Absent)
                => gu.outcome = "return" /\ gu.value = Absent

\* An optional call found creds without a user and returned undefined.
C17_Witness ==
    /\ ~gu.required
    /\ gu.pc = "done"
    /\ gu.inspected
    /\ gu.hadCreds
    /\ req.user = Absent
    /\ gu.outcome = "return"
    /\ gu.value = Absent

-----------------------------------------------------------------------------
(* Properties of the password operations, checked under SpecPw *)

\* the store as the call in progress found it
PwStoreUntouched == users = pw.before.users /\ pwPend = pw.before.pend

\* C11: updatePasswordIfNeeded for an existing user with the password that
\* is stored returns false and writes nothing: the user rows, password and
\* secret, committed and pending, are as the call found them.
C11_SamePasswordNoWrite ==
    (/\ pw.op = "update"
     /\ pw.pc = "done"
     /\ pw.compared
     /\ pw.hash # Absent
     /\ HashedCompare(pw.password, pw.hash))
        => /\ pw.result = "false"
           /\ ~pw.wrote
           /\ PwStoreUntouched

C11_Witness ==
    /\ pw.op = "update"
    /\ pw.pc = "done"
    /\ pw.compared
    /\ pw.hash # Absent
    /\ HashedCompare(pw.password, pw.hash)
    /\ pw.result = "false"
    /\ npw > 1

\* C12 as stated: after updatePasswordIfNeeded wrote a new password for a
\* user, every later checkUserPassword with that password and that user's
\* id succeeds and with the old password fails with InvalidInput.
C12_CheckAfterUpdate ==
    (/\ pw.op = "check"
     /\ pw.pc = "done"
     /\ pw.result # "Error"
     /\ lastUpd # Absent
     /\ pw.userId = lastUpd.id)
        => /\ pw.password = lastUpd.password => pw.result = "ok"
           /\ (lastUpd.old # Absent /\ HashedCompare(pw.password, lastUpd.old))
                => pw.result = "InvalidInput: Current password incorrect."

\* C12: for an existing user and a password that differs from the stored one
\* (a null stored password included) updatePasswordIfNeeded returns true when
\* the write succeeds; once that write is committed (at once without tx, at
\* the caller's commit with tx) checkUserPassword with the new password and
\* the user's id succeeds and with the old password fails with InvalidInput.
C12_CheckAfterCommittedUpdate ==
    /\ (/\ pw.op = "update"
        /\ pw.pc = "done"
        /\ pw.compared
        /\ ~pw.match
        /\ ~pw.writeFailed)
           => pw.result = "true" /\ pw.wrote
    /\ (/\ pw.op = "check"
        /\ pw.pc = "done"
        /\ pw.result # "Error"
        /\ lastUpd # Absent
        /\ lastUpd.committed
        /\ pw.userId = lastUpd.id)
           => /\ pw.password = lastUpd.password => pw.result = "ok"
              /\ (lastUpd.old # Absent /\ HashedCompare(pw.password, lastUpd.old))
                   => pw.result = "InvalidInput: Current password incorrect."

C12_Witness ==
    /\ pw.op = "check"
    /\ pw.pc = "done"
    /\ lastUpd # Absent
    /\ lastUpd.committed
    /\ lastUpd.old = Absent
    /\ pw.userId = lastUpd.id
    /\ pw.password = lastUpd.password
    /\ pw.result = "ok"

\* C13: updatePasswordIfNeeded ends with true, false, NotFound or a failure
\* of the lookup or of the comparison; NotFound only when no user matches;
\* a failed write gives false and leaves the store as it was.
C13_WriteFailureSwallowed ==
    (pw.op = "update" /\ pw.pc = "done")
        => /\ pw.result \in {"true", "false", "NotFound", "Error"}
           /\ pw.result = "Error" => pw.failedAt \in {"lookup", "compare"}
           /\ pw.result = "NotFound"
                => FindUserMatches(pw.login, PwVisible(pw.withTx)) = {}
           /\ pw.writeFailed => pw.result = "false" /\ PwStoreUntouched

C13_Witness ==
    /\ pw.op = "update"
    /\ pw.pc = "done"
    /\ pw.writeFailed
    /\ pw.result = "false"
    /\ PwStoreUntouched

\* C14 as stated: comparePassword(p, null) makes one primitive call, of p
\* against the dummy hash, and gives false.
C14_DummyWithRealPassword ==
    (pw.compared /\ pw.hash = Absent)
        => /\ pw.cmp = <<[password |-> pw.password, hash |-> DummyHash]>>
           /\ ~pw.match

\* C14: comparePassword(p, null) makes exactly one primitive call, of the
\* empty string (not p) against the dummy hash, and its result is false;
\* comparePassword(p, h) with h present makes exactly one primitive call,
\* of (p, h), and returns its result; one primitive call in both cases.
C14_OnePrimitiveCall ==
    pw.compared
        => /\ Len(pw.cmp) = 1
           /\ IF pw.hash = Absent
              THEN /\ pw.cmp[1] = [password |-> "", hash |-> DummyHash]
                   /\ ~pw.match
              ELSE /\ pw.cmp[1] = [password |-> pw.password, hash |-> pw.hash]
                   /\ pw.match = HashedCompare(pw.password, pw.hash)

C14_Witness ==
    /\ pw.compared
    /\ pw.hash = Absent
    /\ pw.password = "pw2"
    /\ pw.cmp = <<[password |-> "", hash |-> DummyHash]>>
    /\ ~pw.match

-----------------------------------------------------------------------------
(* Properties of the permission tests and of findUser, checked under SpecFn *)

\* identity holds the permission: it is there, has a permission list, and
\* the list has the very string
Holds(identity, permission) ==
    /\ identity # Absent
    /\ "permissions" \in DOMAIN identity
    /\ permission \in {identity.permissions[i] : i \in DOMAIN identity.permissions}

\* C15: userHasPermission(user, p) is false for an absent user or one
\* without a permission list, else true exactly when p is in the list;
\* reqHasPermission(req, p) is that test on req.apiKey whenever req.apiKey
\* is present, whatever req.user holds, and on req.user otherwise.
C15_ApiKeyPreferred ==
    /\ fn.name = "userHasPermission"
         => fn.result = Holds(fn.user, fn.permission)
    /\ fn.name = "reqHasPermission"
         => fn.result = IF fn.apiKey # Absent
                        THEN Holds(fn.apiKey, fn.permission)
                        ELSE Holds(fn.user, fn.permission)

C15_Witness ==
    /\ fn.name = "reqHasPermission"
    /\ fn.apiKey # Absent
    /\ ~Holds(fn.apiKey, fn.permission)
    /\ Holds(fn.user, fn.permission)
    /\ fn.result = FALSE

\* the stored users whose email (loginInfo has '@') or username (it has
\* not) equals loginInfo once both are lowercased
SameLogin(loginInfo) ==
    {u \in users :
        ToLower(IF Includes(loginInfo, "@") THEN u.email ELSE u.username)
            = ToLower(loginInfo)}

====
